---- MODULE Spec2Model ----
(***************************************************************************)
(* Model of the SignaturePad component of src/src/App.js: the role-gated   *)
(* request/complete workflow, the stroke handlers drawing on a 2D canvas,  *)
(* the resize handler with its asynchronous image reload, and the download *)
(* handler.  One action per handler; a handler that returns early still    *)
(* counts as invoked (lastOp records it).                                  *)
(*                                                                         *)
(* Canvas model.  The bitmap is the set of backing pixels <<bx, by>> that  *)
(* carry ink; a stroked segment inks the integer backing pixels lying on   *)
(* its centre line (the pen width is not modelled).  Drawing calls take    *)
(* user-space coordinates, which the context multiplies by ctxScale.       *)
(***************************************************************************)
EXTENDS Integers, Sequences, FiniteSets

\* ---------------------------------------------------------------- bounds
\* most Image objects loading at once
MaxPending == 2
\* largest raw client coordinate of the events given to getCoordinates
MaxRaw == 2
\* most simultaneous contacts in e.touches
MaxContacts == 2

\* ------------------------------------------------------ environment sets
\* window.devicePixelRatio values
Ratios == {1, 2}
\* canvas.offsetHeight: the container's fixed height (300px), in model units
OffsetHeight == 2
\* canvas.offsetWidth values the layout may give (width: 100%)
OffsetWidths == {2, 3}
Sizes == {<<w, OffsetHeight>> : w \in OffsetWidths}
\* canvas.getBoundingClientRect() origins <<left, top>>
Rects == {<<0, 0>>, <<1, 0>>}
\* marks an event without a touches list (a mouse event)
NoTouches == <<>>
\* raw client positions of the pointer events
RawXs == {1}
RawYs == {1}
\* a second, simultaneous touch contact
OtherContact == <<0, 0>>
MouseEvents == {[touches |-> NoTouches, clientX |-> x, clientY |-> y] : x \in RawXs, y \in RawYs}
TouchEvents == {[touches |-> <<<<x, y>>, OtherContact>>, clientX |-> 0, clientY |-> 0] : x \in RawXs, y \in RawYs}
Events == MouseEvents \cup TouchEvents
\* the wider inputs of getCoordinates taken by itself: client positions on a
\* grid, bounding-rect origins on the same grid (so a position may lie left
\* of or above the canvas), touch lists of one to MaxContacts contacts
RawPositions == (0..MaxRaw) \X (0..MaxRaw)
RectOrigins == (0..MaxRaw) \X (0..MaxRaw)
TouchLists == UNION {[1..n -> RawPositions] : n \in 1..MaxContacts}
PointerEvents ==
    {[touches |-> NoTouches, clientX |-> p[1], clientY |-> p[2]] : p \in RawPositions}
        \cup {[touches |-> t, clientX |-> 0, clientY |-> 0] : t \in TouchLists}

VARIABLES
    isDrawing,        \* useState(false)
    currentUser,      \* useState('admin'): "admin" or "client"
    signatureStatus,  \* useState('not_signed')
    padActive,        \* useState(false)
    ratio,            \* window.devicePixelRatio || 1
    offset,           \* <<canvas.offsetWidth, canvas.offsetHeight>>
    canvasSize,       \* <<canvas.width, canvas.height>>, the backing size
    ctxScale,         \* the context's transform, a uniform scale
    buffer,           \* the canvas bitmap: set of inked backing pixels
    path,             \* the context's current path
    pending,          \* Image objects whose onload has not fired yet, each
                      \* marked as coming from the latest resize or not
    lastOp,           \* name of the handler invoked last
    prevStatus,       \* signatureStatus as that handler found it
    download,         \* the file handed to the browser by the last handler
    coordinates       \* one call of getCoordinates: its event, the canvas
                      \* rect it read, and the point it returned

vars == <<isDrawing, currentUser, signatureStatus, padActive, ratio, offset,
          canvasSize, ctxScale, buffer, path, pending, lastOp,
          prevStatus, download, coordinates>>

\* useState('png'); the component never calls a setter for it
fileFormat == "png"

NoFile == [name |-> "", href |-> [type |-> "", w |-> 0, h |-> 0, pix |-> {}]]

Min(a, b) == IF a < b THEN a ELSE b
Max(a, b) == IF a < b THEN b ELSE a

\* -------------------------------------------------------- canvas 2D API
InCanvas(c, size) == c[1] \in 0..(size[1] - 1) /\ c[2] \in 0..(size[2] - 1)

\* The context's current path is kept as its geometry: the set of its line
\* segments (each the set of its two end points, in user space), its current
\* point and the first point of its subpath.  stroke() prunes zero-length
\* lines, so they are not recorded.
NoPoint == <<>>
\* no call of getCoordinates under observation
NoCall == [e |-> NoTouches, rect |-> NoPoint, point |-> NoPoint, returned |-> FALSE]
EmptyPath == [segs |-> {}, cur |-> NoPoint, start |-> NoPoint]

\* ctx.beginPath(); ctx.moveTo(x, y)
BeginPathMoveTo(p) == [segs |-> {}, cur |-> p, start |-> p]

\* ctx.lineTo(x, y); on a path without a subpath it only sets the point
LineTo(pth, p) ==
    IF pth.cur = NoPoint THEN [segs |-> pth.segs, cur |-> p, start |-> p]
    ELSE [segs |-> pth.segs \cup (IF p = pth.cur THEN {} ELSE {{pth.cur, p}}),
          cur |-> p, start |-> pth.start]

\* ctx.closePath(): a line back to the first point of the subpath
ClosePath(pth) ==
    IF pth.cur = NoPoint THEN pth
    ELSE [segs |-> pth.segs \cup (IF pth.cur = pth.start THEN {} ELSE {{pth.cur, pth.start}}),
          cur |-> pth.start, start |-> pth.start]

\* backing pixels on the line from backing point p to backing point q
Covered(p, q) ==
    {c \in (Min(p[1], q[1])..Max(p[1], q[1])) \X (Min(p[2], q[2])..Max(p[2], q[2])) :
        (q[1] - p[1]) * (c[2] - p[2]) = (q[2] - p[2]) * (c[1] - p[1])}

\* ctx.stroke(): inks every segment of the current path, under the transform
Stroke(buf, pth, scale, size) ==
    LET Ink(seg) == LET a == CHOOSE x \in seg : TRUE
                        b == CHOOSE x \in seg : x # a
                    IN  Covered(<<a[1] * scale, a[2] * scale>>, <<b[1] * scale, b[2] * scale>>)
    IN  buf \cup {c \in UNION {Ink(seg) : seg \in pth.segs} : InCanvas(c, size)}

\* ctx.clearRect(x, y, w, h) in user space, under the transform
ClearRect(buf, x, y, w, h, scale) ==
    {c \in buf : ~(/\ c[1] >= x * scale /\ c[1] < (x + w) * scale
                   /\ c[2] >= y * scale /\ c[2] < (y + h) * scale)}

\* canvas.toDataURL(type): an unsupported or missing type encodes as PNG;
\* PNG keeps every pixel, JPEG has no alpha channel
ToDataURL(buf, size, type) ==
    IF type = "image/jpeg"
    THEN [type |-> "image/jpeg", w |-> size[1], h |-> size[2],
          pix |-> (0..(size[1] - 1)) \X (0..(size[2] - 1))]
    ELSE [type |-> "image/png", w |-> size[1], h |-> size[2], pix |-> buf]

\* ctx.drawImage(img, dx, dy): the image at its natural size, in user space,
\* composited over the bitmap; image pixel (ix, iy) covers the backing block
\* [(dx+ix)*scale, (dx+ix+1)*scale) x [(dy+iy)*scale, (dy+iy+1)*scale)
DrawImage(buf, img, dx, dy, scale, size) ==
    buf \cup {c \in (0..(size[1] - 1)) \X (0..(size[2] - 1)) :
                \E p \in img.pix :
                    /\ c[1] >= (dx + p[1]) * scale /\ c[1] < (dx + p[1] + 1) * scale
                    /\ c[2] >= (dy + p[2]) * scale /\ c[2] < (dy + p[2] + 1) * scale}

\* ------------------------------------------------------------ component
Init ==
    /\ isDrawing = FALSE
    /\ currentUser = "admin"
    /\ signatureStatus = "not_signed"
    /\ padActive = FALSE
    /\ ratio \in Ratios
    /\ offset \in Sizes
    /\ canvasSize = <<offset[1] * ratio, offset[2] * ratio>>
    /\ ctxScale = 1 * ratio
    /\ buffer = {}
    /\ path = EmptyPath
    /\ pending = {}
    /\ lastOp = "mount"
    /\ prevStatus = "not_signed"
    /\ download = NoFile
    /\ coordinates = NoCall

\* a mapping that reads the newest contact of a touch event
getCoordinates_LastTouch(e, rect) ==
    IF e.touches # NoTouches
    THEN <<e.touches[Len(e.touches)][1] - rect[1], e.touches[Len(e.touches)][2] - rect[2]>>
    ELSE <<e.clientX - rect[1], e.clientY - rect[2]>>

getCoordinates(e, rect) ==
    IF e.touches # NoTouches
    THEN <<e.touches[1][1] - rect[1], e.touches[1][2] - rect[2]>>
    ELSE <<e.clientX - rect[1], e.clientY - rect[2]>>

\* a gate that forgets the role
canDraw_AnyRole == padActive

canDraw == currentUser = "client" /\ padActive

\* a pen-down that starts a stroke without asking canDraw
startDrawing_Ungated(e, rect) ==
    /\ lastOp' = "startDrawing"
    /\ prevStatus' = signatureStatus
    /\ download' = NoFile
    /\ UNCHANGED coordinates
    /\ isDrawing' = TRUE
    /\ path' = BeginPathMoveTo(getCoordinates(e, rect))
    /\ UNCHANGED <<currentUser, signatureStatus, padActive, ratio, offset,
                   canvasSize, ctxScale, buffer, pending>>

startDrawing(e, rect) ==
    /\ lastOp' = "startDrawing"
    /\ prevStatus' = signatureStatus
    /\ download' = NoFile
    /\ UNCHANGED coordinates
    /\ IF ~canDraw
       THEN UNCHANGED <<isDrawing, path>>
       ELSE /\ isDrawing' = TRUE
            /\ path' = BeginPathMoveTo(getCoordinates(e, rect))
    /\ UNCHANGED <<currentUser, signatureStatus, padActive, ratio, offset,
                   canvasSize, ctxScale, buffer, pending>>

draw(e, rect) ==
    /\ lastOp' = "draw"
    /\ prevStatus' = signatureStatus
    /\ download' = NoFile
    /\ UNCHANGED coordinates
    /\ IF ~isDrawing \/ ~canDraw
       THEN UNCHANGED <<path, buffer>>
       ELSE /\ path' = LineTo(path, getCoordinates(e, rect))
            /\ buffer' = Stroke(buffer, path', ctxScale, canvasSize)
    /\ UNCHANGED <<isDrawing, currentUser, signatureStatus, padActive, ratio,
                   offset, canvasSize, ctxScale, pending>>

stopDrawing ==
    /\ lastOp' = "stopDrawing"
    /\ prevStatus' = signatureStatus
    /\ download' = NoFile
    /\ UNCHANGED coordinates
    /\ IF ~isDrawing
       THEN UNCHANGED <<isDrawing, path>>
       ELSE /\ isDrawing' = FALSE
            /\ path' = ClosePath(path)
    /\ UNCHANGED <<currentUser, signatureStatus, padActive, ratio, offset,
                   canvasSize, ctxScale, buffer, pending>>

\* the state updates of clearCanvas, shared by the Clear button and
\* requestSignature
ClearBuffer == ClearRect(buffer, 0, 0, canvasSize[1], canvasSize[2], ctxScale)
\* a reset that does not look at the status it resets
ClearStatus_Always == "not_signed"

\* a clear that never touches the status
ClearStatus_Never == signatureStatus

ClearStatus == IF signatureStatus = "signed" THEN "not_signed" ELSE signatureStatus

clearCanvas ==
    /\ lastOp' = "clearCanvas"
    /\ prevStatus' = signatureStatus
    /\ download' = NoFile
    /\ UNCHANGED coordinates
    /\ buffer' = ClearBuffer
    /\ signatureStatus' = ClearStatus
    /\ UNCHANGED <<isDrawing, currentUser, padActive, ratio, offset,
                   canvasSize, ctxScale, path, pending>>

\* an export that ends the stroke in progress
downloadSignature_EndsStroke ==
    /\ lastOp' = "downloadSignature"
    /\ prevStatus' = signatureStatus
    /\ download' = [name |-> "signature." \o fileFormat,
                    href |-> ToDataURL(buffer, canvasSize, "image/" \o fileFormat)]
    /\ UNCHANGED coordinates
    /\ isDrawing' = FALSE
    /\ UNCHANGED <<currentUser, signatureStatus, padActive, ratio, offset,
                   canvasSize, ctxScale, buffer, path, pending>>

downloadSignature ==
    /\ lastOp' = "downloadSignature"
    /\ prevStatus' = signatureStatus
    /\ download' = [name |-> "signature." \o fileFormat,
                    href |-> ToDataURL(buffer, canvasSize, "image/" \o fileFormat)]
    /\ UNCHANGED coordinates
    /\ UNCHANGED <<isDrawing, currentUser, signatureStatus, padActive, ratio,
                   offset, canvasSize, ctxScale, buffer, path, pending>>

\* a request that clears the canvas before it checks the role
requestSignature_ClearsFirst ==
    /\ lastOp' = "requestSignature"
    /\ prevStatus' = signatureStatus
    /\ download' = NoFile
    /\ UNCHANGED coordinates
    /\ buffer' = ClearBuffer
    /\ IF currentUser # "admin"
       THEN UNCHANGED <<signatureStatus, padActive, currentUser>>
       ELSE /\ signatureStatus' = "requested"
            /\ padActive' = TRUE
            /\ currentUser' = "client"
    /\ UNCHANGED <<isDrawing, ratio, offset, canvasSize, ctxScale, path, pending>>

\* a request that refuses to replace a signed result
requestSignature_NotWhenSigned ==
    /\ lastOp' = "requestSignature"
    /\ prevStatus' = signatureStatus
    /\ download' = NoFile
    /\ UNCHANGED coordinates
    /\ IF currentUser # "admin" \/ signatureStatus = "signed"
       THEN UNCHANGED <<buffer, signatureStatus, padActive, currentUser>>
       ELSE /\ buffer' = ClearBuffer
            /\ signatureStatus' = "requested"
            /\ padActive' = TRUE
            /\ currentUser' = "client"
    /\ UNCHANGED <<isDrawing, ratio, offset, canvasSize, ctxScale, path, pending>>

\* a request that is accepted only while nothing has been requested or signed
requestSignature_OnlyFresh ==
    /\ lastOp' = "requestSignature"
    /\ prevStatus' = signatureStatus
    /\ download' = NoFile
    /\ UNCHANGED coordinates
    /\ IF currentUser # "admin" \/ signatureStatus # "not_signed"
       THEN UNCHANGED <<buffer, signatureStatus, padActive, currentUser>>
       ELSE /\ buffer' = ClearBuffer
            /\ signatureStatus' = "requested"
            /\ padActive' = TRUE
            /\ currentUser' = "client"
    /\ UNCHANGED <<isDrawing, ratio, offset, canvasSize, ctxScale, path, pending>>

\* clearCanvas() runs first; its status reset is overwritten by 'requested'
requestSignature ==
    /\ lastOp' = "requestSignature"
    /\ prevStatus' = signatureStatus
    /\ download' = NoFile
    /\ UNCHANGED coordinates
    /\ IF currentUser # "admin"
       THEN UNCHANGED <<buffer, signatureStatus, padActive, currentUser>>
       ELSE /\ buffer' = ClearBuffer
            /\ signatureStatus' = "requested"
            /\ padActive' = TRUE
            /\ currentUser' = "client"
    /\ UNCHANGED <<isDrawing, ratio, offset, canvasSize, ctxScale, path, pending>>

\* a completion that leaves the pad active
completeSignature_KeepsPad ==
    /\ lastOp' = "completeSignature"
    /\ prevStatus' = signatureStatus
    /\ download' = NoFile
    /\ UNCHANGED coordinates
    /\ IF currentUser # "client"
       THEN UNCHANGED <<signatureStatus, currentUser>>
       ELSE /\ signatureStatus' = "signed"
            /\ currentUser' = "admin"
    /\ UNCHANGED <<isDrawing, padActive, ratio, offset, canvasSize, ctxScale,
                   buffer, path, pending>>

completeSignature ==
    /\ lastOp' = "completeSignature"
    /\ prevStatus' = signatureStatus
    /\ download' = NoFile
    /\ UNCHANGED coordinates
    /\ IF currentUser # "client"
       THEN UNCHANGED <<signatureStatus, padActive, currentUser>>
       ELSE /\ signatureStatus' = "signed"
            /\ padActive' = FALSE
            /\ currentUser' = "admin"
    /\ UNCHANGED <<isDrawing, ratio, offset, canvasSize, ctxScale, buffer,
                   path, pending>>

\* a toggle that only ever hands over to the client
toggleUser_OneWay ==
    /\ lastOp' = "toggleUser"
    /\ prevStatus' = signatureStatus
    /\ download' = NoFile
    /\ UNCHANGED coordinates
    /\ currentUser' = "client"
    /\ UNCHANGED <<isDrawing, signatureStatus, padActive, ratio, offset,
                   canvasSize, ctxScale, buffer, path, pending>>

toggleUser ==
    /\ lastOp' = "toggleUser"
    /\ prevStatus' = signatureStatus
    /\ download' = NoFile
    /\ UNCHANGED coordinates
    /\ currentUser' = IF currentUser = "admin" THEN "client" ELSE "admin"
    /\ UNCHANGED <<isDrawing, signatureStatus, padActive, ratio, offset,
                   canvasSize, ctxScale, buffer, path, pending>>

\* setupCanvas: assigning canvas.width/height blanks the bitmap and resets
\* the context (transform back to identity, current path emptied); the
\* transform is then scaled by ratio
setupCanvasSize(size) == <<size[1] * ratio, size[2] * ratio>>
\* a setup that scales the transform it finds instead of a reset one
setupCanvasScale_Compounds == ctxScale * ratio

setupCanvasScale == 1 * ratio

\* the window's resize event: the layout has given the canvas the logical
\* size newSize; the bitmap is captured, the canvas set up again, and an
\* Image is left loading the capture
handleResize(newSize) ==
    /\ Cardinality(pending) < MaxPending
    /\ lastOp' = "handleResize"
    /\ prevStatus' = signatureStatus
    /\ download' = NoFile
    /\ UNCHANGED coordinates
    /\ offset' = newSize
    /\ LET prevImage == ToDataURL(buffer, canvasSize, "image/png")
       IN  pending' = {[i EXCEPT !.latest = FALSE] : i \in pending}
                        \cup {[src |-> prevImage, latest |-> TRUE]}
    /\ canvasSize' = setupCanvasSize(newSize)
    /\ ctxScale' = setupCanvasScale
    /\ buffer' = {}
    /\ path' = EmptyPath
    /\ UNCHANGED <<isDrawing, currentUser, signatureStatus, padActive, ratio>>

\* img.onload of one loading Image, in any order
imgOnload(img) ==
    /\ img \in pending
    /\ lastOp' = "imgOnload"
    /\ prevStatus' = signatureStatus
    /\ download' = NoFile
    /\ UNCHANGED coordinates
    /\ pending' = pending \ {img}
    /\ buffer' = DrawImage(buffer, img.src, 0, 0, ctxScale, canvasSize)
    /\ UNCHANGED <<isDrawing, currentUser, signatureStatus, padActive, ratio,
                   offset, canvasSize, ctxScale, path>>

Next ==
    \/ \E e \in Events, rect \in Rects : startDrawing(e, rect)
    \/ \E e \in Events, rect \in Rects : draw(e, rect)
    \/ stopDrawing
    \/ clearCanvas
    \/ downloadSignature
    \/ requestSignature
    \/ completeSignature
    \/ toggleUser
    \/ \E newSize \in Sizes : handleResize(newSize)
    \/ \E img \in pending : imgOnload(img)

Spec == Init /\ [][Next]_vars

\* getCoordinates taken by itself: the component as mounted, one pointer
\* event and one bounding rect given, and the call that maps them
InitCoord ==
    /\ isDrawing = FALSE
    /\ currentUser = "admin"
    /\ signatureStatus = "not_signed"
    /\ padActive = FALSE
    /\ ratio = 1
    /\ offset = <<MaxRaw, OffsetHeight>>
    /\ canvasSize = <<offset[1] * ratio, offset[2] * ratio>>
    /\ ctxScale = 1 * ratio
    /\ buffer = {}
    /\ path = EmptyPath
    /\ pending = {}
    /\ lastOp = "mount"
    /\ prevStatus = "not_signed"
    /\ download = NoFile
    /\ coordinates \in {[e |-> e, rect |-> rect, point |-> NoPoint, returned |-> FALSE] :
                            e \in PointerEvents, rect \in RectOrigins}

callGetCoordinates ==
    /\ ~coordinates.returned
    /\ coordinates' = [coordinates EXCEPT
                          !.point = getCoordinates(coordinates.e, coordinates.rect),
                          !.returned = TRUE]
    /\ UNCHANGED <<isDrawing, currentUser, signatureStatus, padActive, ratio,
                   offset, canvasSize, ctxScale, buffer, path, pending, lastOp,
                   prevStatus, download>>

NextCoord == callGetCoordinates

SpecCoord == InitCoord /\ [][NextCoord]_vars

TypeOK ==
    /\ isDrawing \in BOOLEAN
    /\ currentUser \in {"admin", "client"}
    /\ signatureStatus \in {"not_signed", "requested", "signed"}
    /\ padActive \in BOOLEAN
    /\ \A c \in buffer : InCanvas(c, canvasSize)
    /\ Cardinality(pending) <= MaxPending
    /\ Cardinality({i \in pending : i.latest}) <= 1

\* ------------------------------------------------------------- properties
\* the Image whose onload ran in this step
Fired == pending \ pending'

\* C1: a draw step that extends the path or changes the bitmap happens only
\* while the client is the current user and the pad is active.
C1_PermissionGating ==
    [][(lastOp' = "draw" /\ (buffer' # buffer \/ path' # path))
         => (currentUser = "client" /\ padActive)]_vars

C1_Witness ==
    /\ lastOp = "draw"
    /\ buffer # {}
    /\ path.segs # {}
    /\ currentUser = "client" /\ padActive

\* C2: completeSignature changes signatureStatus, currentUser or padActive
\* only when the status is requested, and the status becomes signed only
\* from requested.
C2_CompleteOnlyWhenRequested ==
    [][/\ (lastOp' = "completeSignature" /\ signatureStatus # "requested")
            => UNCHANGED <<signatureStatus, currentUser, padActive>>
       /\ (signatureStatus' = "signed" /\ signatureStatus # "signed")
            => signatureStatus = "requested"]_vars

C4_ClearEffect ==
    [][lastOp' = "clearCanvas"
         => /\ buffer' = {}
            /\ signatureStatus' = (IF signatureStatus = "signed" THEN "not_signed"
                                                                ELSE signatureStatus)
            /\ UNCHANGED <<currentUser, padActive>>]_vars

C4_Witness ==
    /\ lastOp = "clearCanvas"
    /\ prevStatus = "signed"
    /\ signatureStatus = "not_signed"
    /\ buffer = {}

\* C5: completeSignature invoked by the admin and requestSignature invoked
\* by the client change neither status, user, padActive nor the bitmap.
C5_IllegalNoOp ==
    [][(\/ (lastOp' = "completeSignature" /\ currentUser = "admin")
        \/ (lastOp' = "requestSignature" /\ currentUser = "client"))
         => UNCHANGED <<signatureStatus, currentUser, padActive, buffer>>]_vars

C5_Witness ==
    /\ lastOp = "requestSignature"
    /\ currentUser = "client"
    /\ buffer # {}

\* C6: when the image of a resize that kept the canvas size has loaded, the
\* ink it captured is where it was and nothing else has been painted.
C6_ResizePreserves ==
    [][lastOp' = "imgOnload"
         => \A img \in Fired :
              (img.src.w = canvasSize[1] /\ img.src.h = canvasSize[2])
                => (img.src.pix \subseteq buffer' /\ buffer' \subseteq buffer \cup img.src.pix)]_vars

\* C7: the onload of an image that is not the one of the latest resize
\* draws nothing.
C7_StaleDiscarded ==
    [][lastOp' = "imgOnload"
         => \A img \in Fired : ~img.latest => buffer' = buffer]_vars

\* C8: downloadSignature hands over the PNG of the current bitmap and
\* changes nothing else; a second download right after it hands over the
\* same file.
C8_ExportPure ==
    [][lastOp' = "downloadSignature"
         => /\ download'.name = "signature.png"
            /\ download'.href = [type |-> "image/png", w |-> canvasSize[1],
                                 h |-> canvasSize[2], pix |-> buffer]
            /\ UNCHANGED <<currentUser, signatureStatus, padActive, isDrawing,
                           buffer, canvasSize>>
            /\ (lastOp = "downloadSignature" => download' = download)]_vars

C8_Witness ==
    /\ lastOp = "downloadSignature"
    /\ isDrawing
    /\ buffer # {}
    /\ download.href.pix = buffer

\* C10: toggleUser makes the other user current, and changes neither the
\* status, padActive, isDrawing nor the bitmap.
C10_ToggleFrame ==
    [][lastOp' = "toggleUser"
         => /\ currentUser \in {"admin", "client"}
            /\ currentUser' \in {"admin", "client"} \ {currentUser}
            /\ UNCHANGED <<signatureStatus, padActive, isDrawing, buffer>>]_vars

C10_Witness ==
    /\ lastOp = "toggleUser"
    /\ currentUser = "admin"
    /\ signatureStatus = "requested"
    /\ padActive /\ isDrawing
    /\ buffer # {}

\* C11: in every state the backing size is the logical size times the
\* device pixel ratio, and the context's scale is the ratio itself.
C11_SurfaceInvariant ==
    /\ canvasSize = <<offset[1] * ratio, offset[2] * ratio>>
    /\ ctxScale = ratio

\* a resize that changed the width, on a high-density display
C11_Witness ==
    /\ lastOp = "handleResize"
    /\ ratio = 2
    /\ \E img \in pending : img.latest /\ img.src.w # canvasSize[1]
    /\ canvasSize = <<offset[1] * 2, offset[2] * 2>>
    /\ ctxScale = 2

\* from the admin, one requestSignature reaches the state that permits drawing
RequestReachesDrawing ==
    /\ requestSignature
    /\ currentUser' = "client" /\ signatureStatus' = "requested" /\ padActive'

\* from the client, one toggleUser reaches the admin
ToggleReachesAdmin == toggleUser /\ currentUser' = "admin"

C13_StrokeLifecycle ==
    [][/\ (lastOp' = "startDrawing" /\ ~(currentUser = "client" /\ padActive))
            => UNCHANGED <<isDrawing, path, buffer>>
       /\ (~isDrawing /\ isDrawing')
            => (lastOp' = "startDrawing" /\ currentUser = "client" /\ padActive)
       /\ (lastOp' = "draw" /\ ~isDrawing) => UNCHANGED <<path, buffer>>
       /\ lastOp' = "stopDrawing"
            => /\ ~isDrawing'
               /\ ~isDrawing => UNCHANGED <<path, buffer>>]_vars

\* a pen-down by the admin on an active pad, ignored
C13_Witness ==
    /\ lastOp = "startDrawing"
    /\ currentUser = "admin"
    /\ padActive
    /\ ~isDrawing

\* C14: the pad is active exactly while the status is requested.
C14_PadActiveIffRequested == padActive <=> (signatureStatus = "requested")

\* a Clear during a request leaves both as they were
C14_Witness ==
    /\ lastOp = "clearCanvas"
    /\ signatureStatus = "requested"
    /\ padActive

\* C15 as stated: no step that keeps the status signed changes the bitmap.
C15_SignedStable ==
    [][(signatureStatus = "signed" /\ signatureStatus' = "signed")
         => buffer' = buffer]_vars

\* C15 as amended: no step other than a resize or an image load that keeps
\* the status signed changes the bitmap.
C15_SignedStableButResize ==
    [][(/\ signatureStatus = "signed" /\ signatureStatus' = "signed"
        /\ lastOp' \notin {"handleResize", "imgOnload"})
         => buffer' = buffer]_vars

\* a pen move by the client on a signed result, with a stroke still open
C15_Witness ==
    /\ lastOp = "draw"
    /\ signatureStatus = "signed"
    /\ currentUser = "client"
    /\ isDrawing
    /\ buffer # {}

\* the ink of the one segment a lineTo to the point newCur adds
NewSegmentInk(pth, newCur, scale, size) ==
    IF pth.cur = NoPoint \/ pth.cur = newCur THEN {}
    ELSE {c \in Covered(<<pth.cur[1] * scale, pth.cur[2] * scale>>,
                        <<newCur[1] * scale, newCur[2] * scale>>) : InCanvas(c, size)}

\* C16: a pointer move paints nothing but its own new segment.
C16_OnlyNewSegment ==
    [][lastOp' = "draw"
         => buffer' \subseteq buffer \cup NewSegmentInk(path, path'.cur, ctxScale, canvasSize)]_vars

\* C17: the image load that follows a Clear leaves the bitmap blank.
C17_ClearedStaysBlank ==
    [][(lastOp = "clearCanvas" /\ lastOp' = "imgOnload") => buffer' = {}]_vars
\* C18: the point getCoordinates returns is the raw position minus the
\* rect's origin, with no clamping when the position lies outside the canvas;
\* the raw position is that of the first contact of a touch event, whatever
\* the other contacts are, and clientX/clientY of a mouse event.
C18_CoordinateMapping ==
    coordinates.returned =>
        LET e == coordinates.e
            rect == coordinates.rect
            raw == IF e.touches = NoTouches THEN <<e.clientX, e.clientY>>
                   ELSE Head(e.touches)
        IN  /\ coordinates.point = <<raw[1] - rect[1], raw[2] - rect[2]>>
            /\ \A other \in RawPositions :
                   e.touches # NoTouches
                      => getCoordinates([e EXCEPT !.touches = <<Head(e.touches), other>>], rect)
                            = coordinates.point

\* a two-contact touch whose first contact lies left of the canvas and whose
\* second contact lies inside it has been mapped
C18_Witness ==
    /\ coordinates.returned
    /\ Len(coordinates.e.touches) = 2
    /\ coordinates.e.touches[1][1] < coordinates.rect[1]
    /\ coordinates.e.touches[2][1] > coordinates.rect[1]
    /\ coordinates.point[1] < 0

====
